---- MODULE Spec2Model ----
(***************************************************************************)
(* A model of src/main.cpp of jawadcode/opengl-template: a single-threaded *)
(* program that opens a GLFW window, builds a shader program, uploads one  *)
(* triangle and draws it every frame until the window is asked to close.   *)
(*                                                                         *)
(* The program is modelled as a program counter `pc' walking through the   *)
(* statements of main, init_window, get_shader_program and process_input.  *)
(* Every API call the program makes is appended to `calls' in the order    *)
(* the code makes it.  The window system (user and OS) is the environment: *)
(* it queues events, which GLFW hands to the program only inside           *)
(* glfwPollEvents.                                                         *)
(*                                                                         *)
(* Vertex coordinates are kept in tenths (-0.5 is -5), TLA+ has no floats. *)
(***************************************************************************)
EXTENDS Integers, Sequences, FiniteSets, TLC

(* ---- bounds of the model ---- *)
MaxFrames == 3      \* loop iterations a behaviour may enter
MaxEvents == 3      \* window-system events produced in a behaviour

(* ---- constants of the program ---- *)
WIN_W == 800
WIN_H == 600
VS_ID == 1
FS_ID == 2
PROG_ID == 3
VAO_ID == 1
VBO_ID == 1
GL_TRIANGLES == 4
INFO_LOG_SIZE == 512
EXIT_FAILURE_CODE == -1

\* framebuffer sizes the window system may give the new 800x600 window
\* (the second is a HiDPI display with two pixels per screen coordinate)
CreatedFbSizes == { <<800, 600>>, <<1600, 1200>> }
\* framebuffer sizes a later resize may produce
ResizedFbSizes == { <<640, 480>>, <<1024, 768>> }

\* float vertices[] in tenths
vertices == << -5, -5, 0, 5, -5, 0, 0, 5, 0 >>

VARIABLES
    pc,             \* the statement the single thread executes next
    calls,          \* every API call made so far, in order
    stdout,         \* diagnostics written to std::cout
    exitStatus,     \* << >> while running, then << status >>
    glfwOk,         \* result of glfwInit (never read by the program)
    window,         \* "none", "open" once glfwCreateWindow returned a window, "destroyed"
    context,        \* TRUE when the window's context is current
    loaded,         \* TRUE when gladLoadGLLoader succeeded
    fbSize,         \* the window's actual framebuffer size
    viewport,       \* GL viewport <<x, y, w, h>>, <<>> before any glViewport
    callbackSet,    \* TRUE once the framebuffer size callback is installed
    shouldClose,    \* the window's close flag
    keyState,       \* GLFW's cached state of GLFW_KEY_ESCAPE
    physKey,        \* the physical key, "up" or "down"
    events,         \* events queued by the window system, not yet delivered
    nEvents,        \* events produced so far
    escTrack,       \* history: progress of the latest escape press
    vsState, fsState,       \* shader objects: "none", "created", "deleted"
    vsCompiled, fsCompiled, \* GL_COMPILE_STATUS of the shader objects
    progState,              \* "none", "created", "linked", "linkfailed", "deleted"
    activeProgram,          \* program in use, 0 when none
    vaoState, vboState,     \* "none", "gen", "deleted"
    boundVAO, boundVBO,     \* current bindings, 0 when none
    attrib0,                \* attribute 0 of the vertex array object
    vboData,                \* contents of the vertex buffer
    frames,         \* loop iterations entered
    iterCalls       \* calls made in the current loop iteration

progVars == << pc, calls, stdout, exitStatus >>
winVars == << glfwOk, window, context, loaded, fbSize, viewport, callbackSet,
              shouldClose, keyState >>
envVars == << physKey, events, nEvents, escTrack >>
shaderVars == << vsState, fsState, vsCompiled, fsCompiled, progState, activeProgram >>
geomVars == << vaoState, vboState, boundVAO, boundVBO, attrib0, vboData >>
loopVars == << frames, iterCalls >>
vars == << progVars, winVars, envVars, shaderVars, geomVars, loopVars >>

Call(f, a) == [f |-> f, a |-> a]

NoAttrib == [buffer |-> 0, size |-> 0, stride |-> 0, offset |-> 0, enabled |-> FALSE]

Event(t, w, h) == [t |-> t, w |-> w, h |-> h]

Init ==
    /\ pc = "glfwInit"
    /\ calls = << >>
    /\ stdout = << >>
    /\ exitStatus = << >>
    /\ glfwOk = FALSE
    /\ window = "none"
    /\ context = FALSE
    /\ loaded = FALSE
    /\ fbSize = << 0, 0 >>
    /\ viewport = << >>
    /\ callbackSet = FALSE
    /\ shouldClose = FALSE
    /\ keyState = "release"
    /\ physKey = "up"
    /\ events = << >>
    /\ nEvents = 0
    /\ escTrack = "none"
    /\ vsState = "none"
    /\ fsState = "none"
    /\ vsCompiled = FALSE
    /\ fsCompiled = FALSE
    /\ progState = "none"
    /\ activeProgram = 0
    /\ vaoState = "none"
    /\ vboState = "none"
    /\ boundVAO = 0
    /\ boundVBO = 0
    /\ attrib0 = NoAttrib
    /\ vboData = << >>
    /\ frames = 0
    /\ iterCalls = << >>

\* a step of the program outside the render loop: goes to `next' making `cs'
Step(next, cs) ==
    /\ pc' = next
    /\ calls' = calls \o cs

\* std::exit(status)
Exit(status) == exitStatus' = << status >>

(* ======================= init_window ======================= *)

\* mutant: a failed glfwInit ends the process at once, silently
GlfwInitChecked ==
    /\ pc = "glfwInit"
    /\ \E ok \in BOOLEAN :
         /\ glfwOk' = ok
         /\ IF ok
            THEN /\ Step("createWindow",
                         << Call("glfwInit", << >>), Call("glfwWindowHint", << 3 >>),
                            Call("glfwWindowHint", << 3 >>), Call("glfwWindowHint", << 1 >>) >>)
                 /\ UNCHANGED exitStatus
            ELSE /\ Step("exited", << Call("glfwInit", << >>) >>)
                 /\ Exit(EXIT_FAILURE_CODE)
    /\ UNCHANGED << stdout, window, context, loaded, fbSize, viewport,
                    callbackSet, shouldClose, keyState >>
    /\ UNCHANGED << envVars, shaderVars, geomVars, loopVars >>

\* glfwInit and the three window hints (a fourth under __APPLE__); the result
\* of glfwInit is discarded
GlfwInit ==
    /\ pc = "glfwInit"
    /\ \E ok \in BOOLEAN : glfwOk' = ok
    /\ Step("createWindow",
            << Call("glfwInit", << >>), Call("glfwWindowHint", << 3 >>),
               Call("glfwWindowHint", << 3 >>), Call("glfwWindowHint", << 1 >>) >>)
    /\ UNCHANGED << stdout, exitStatus, window, context, loaded, fbSize, viewport,
                    callbackSet, shouldClose, keyState >>
    /\ UNCHANGED << envVars, shaderVars, geomVars, loopVars >>

WindowFailedMessage == "Failed to create GLFW window"

\* mutant: the window-creation failure branch exits without glfwTerminate
CreateWindowNoTerminate ==
    /\ pc = "createWindow"
    /\ \E made \in (IF glfwOk THEN BOOLEAN ELSE {FALSE}) :
         IF made
         THEN /\ window' = "open"
              /\ \E s \in CreatedFbSizes : fbSize' = s
              /\ Step("makeCurrent", << Call("glfwCreateWindow", << WIN_W, WIN_H >>) >>)
              /\ UNCHANGED << stdout, exitStatus >>
         ELSE /\ window' = "none"
              /\ fbSize' = fbSize
              /\ stdout' = Append(stdout, WindowFailedMessage)
              /\ Step("exited", << Call("glfwCreateWindow", << WIN_W, WIN_H >>) >>)
              /\ Exit(EXIT_FAILURE_CODE)
    /\ UNCHANGED << glfwOk, context, loaded, viewport, callbackSet, shouldClose, keyState >>
    /\ UNCHANGED << envVars, shaderVars, geomVars, loopVars >>

\* glfwCreateWindow(800, 600, ...) and the NULL check
CreateWindow ==
    /\ pc = "createWindow"
    /\ \E made \in (IF glfwOk THEN BOOLEAN ELSE {FALSE}) :
         IF made
         THEN /\ window' = "open"
              /\ \E s \in CreatedFbSizes : fbSize' = s
              /\ Step("makeCurrent", << Call("glfwCreateWindow", << WIN_W, WIN_H >>) >>)
              /\ UNCHANGED << stdout, exitStatus >>
         ELSE /\ window' = "none"
              /\ fbSize' = fbSize
              /\ stdout' = Append(stdout, WindowFailedMessage)
              /\ Step("exited", << Call("glfwCreateWindow", << WIN_W, WIN_H >>),
                                   Call("glfwTerminate", << >>) >>)
              /\ Exit(EXIT_FAILURE_CODE)
    /\ UNCHANGED << glfwOk, context, loaded, viewport, callbackSet, shouldClose, keyState >>
    /\ UNCHANGED << envVars, shaderVars, geomVars, loopVars >>

MakeContextCurrent ==
    /\ pc = "makeCurrent"
    /\ context' = TRUE
    /\ Step("loadGL", << Call("glfwMakeContextCurrent", << >>) >>)
    /\ UNCHANGED << stdout, exitStatus, glfwOk, window, loaded, fbSize, viewport,
                    callbackSet, shouldClose, keyState >>
    /\ UNCHANGED << envVars, shaderVars, geomVars, loopVars >>

GladFailedMessage == "Failed to initialize GLAD"

\* mutant: the result of gladLoadGLLoader is not checked
LoadGLUnchecked ==
    /\ pc = "loadGL"
    /\ \E ok \in BOOLEAN : loaded' = ok
    /\ Step("initViewport", << Call("gladLoadGLLoader", << >>) >>)
    /\ UNCHANGED << stdout, exitStatus >>
    /\ UNCHANGED << glfwOk, window, context, fbSize, viewport, callbackSet,
                    shouldClose, keyState >>
    /\ UNCHANGED << envVars, shaderVars, geomVars, loopVars >>

\* gladLoadGLLoader and its check
LoadGL ==
    /\ pc = "loadGL"
    /\ \E ok \in BOOLEAN :
         /\ loaded' = ok
         /\ IF ok
            THEN /\ Step("initViewport", << Call("gladLoadGLLoader", << >>) >>)
                 /\ UNCHANGED << stdout, exitStatus >>
            ELSE /\ stdout' = Append(stdout, GladFailedMessage)
                 /\ Step("exited", << Call("gladLoadGLLoader", << >>) >>)
                 /\ Exit(EXIT_FAILURE_CODE)
    /\ UNCHANGED << glfwOk, window, context, fbSize, viewport, callbackSet,
                    shouldClose, keyState >>
    /\ UNCHANGED << envVars, shaderVars, geomVars, loopVars >>

\* the viewport init_window sets: glViewport(0, 0, 800, 600)
InitialViewport == << 0, 0, 800, 600 >>

InitViewport ==
    /\ pc = "initViewport"
    /\ viewport' = InitialViewport
    /\ Step("setCallback", << Call("glViewport", InitialViewport) >>)
    /\ UNCHANGED << stdout, exitStatus, glfwOk, window, context, loaded, fbSize,
                    callbackSet, shouldClose, keyState >>
    /\ UNCHANGED << envVars, shaderVars, geomVars, loopVars >>

\* glfwSetFramebufferSizeCallback; init_window returns
SetCallback ==
    /\ pc = "setCallback"
    /\ callbackSet' = TRUE
    /\ Step("vsCompile", << Call("glfwSetFramebufferSizeCallback", << >>) >>)
    /\ UNCHANGED << stdout, exitStatus, glfwOk, window, context, loaded, fbSize,
                    viewport, shouldClose, keyState >>
    /\ UNCHANGED << envVars, shaderVars, geomVars, loopVars >>

(* ======================= get_shader_program ======================= *)

\* glCreateShader(GL_VERTEX_SHADER), glShaderSource, glCompileShader; whether
\* the driver accepts the source is the driver's choice
CompileVertex ==
    /\ pc = "vsCompile"
    /\ vsState' = "created"
    /\ \E ok \in BOOLEAN : vsCompiled' = ok
    /\ Step("vsCheck", << Call("glCreateShader", << VS_ID >>),
                          Call("glShaderSource", << VS_ID >>),
                          Call("glCompileShader", << VS_ID >>) >>)
    /\ UNCHANGED << stdout, exitStatus, fsState, fsCompiled, progState, activeProgram >>
    /\ UNCHANGED << winVars, envVars, geomVars, loopVars >>

\* mutant: the vertex compile status is not acted on
VertexCheckIgnored == FALSE

\* if (!success) after glGetShaderiv(vertex_shader_id, ...)
VertexCheckFails == ~vsCompiled

VertexFailedMessage == "Fatal Error - Compilation of vertex shader failed"

CheckVertex ==
    /\ pc = "vsCheck"
    /\ IF VertexCheckFails
       THEN /\ stdout' = Append(stdout, VertexFailedMessage)
            /\ Step("exited", << Call("glGetShaderiv", << VS_ID >>),
                                 Call("glGetShaderInfoLog", << VS_ID, INFO_LOG_SIZE >>) >>)
            /\ Exit(EXIT_FAILURE_CODE)
       ELSE /\ Step("fsCompile", << Call("glGetShaderiv", << VS_ID >>) >>)
            /\ UNCHANGED << stdout, exitStatus >>
    /\ UNCHANGED << winVars, envVars, shaderVars, geomVars, loopVars >>

CompileFragment ==
    /\ pc = "fsCompile"
    /\ fsState' = "created"
    /\ \E ok \in BOOLEAN : fsCompiled' = ok
    /\ Step("link", << Call("glCreateShader", << FS_ID >>),
                       Call("glShaderSource", << FS_ID >>),
                       Call("glCompileShader", << FS_ID >>) >>)
    /\ UNCHANGED << stdout, exitStatus, vsState, vsCompiled, progState, activeProgram >>
    /\ UNCHANGED << winVars, envVars, geomVars, loopVars >>

\* glUseProgram(p): a program that is not linked raises GL_INVALID_OPERATION
\* and leaves the program in use unchanged
UseProgramResult(p, state, current) == IF state = "linked" THEN p ELSE current

\* glCreateProgram, two glAttachShader, glLinkProgram, glUseProgram.  Linking
\* fails when an attached shader is not compiled, and may fail otherwise;
\* the link status is never read.
LinkProgram ==
    /\ pc = "link"
    /\ \E ok \in (IF vsCompiled /\ fsCompiled THEN BOOLEAN ELSE {FALSE}) :
         /\ progState' = IF ok THEN "linked" ELSE "linkfailed"
         /\ activeProgram' = UseProgramResult(PROG_ID, progState', activeProgram)
    /\ Step("fsCheck", << Call("glCreateProgram", << PROG_ID >>),
                          Call("glAttachShader", << PROG_ID, VS_ID >>),
                          Call("glAttachShader", << PROG_ID, FS_ID >>),
                          Call("glLinkProgram", << PROG_ID >>),
                          Call("glUseProgram", << PROG_ID >>) >>)
    /\ UNCHANGED << stdout, exitStatus, vsState, fsState, vsCompiled, fsCompiled >>
    /\ UNCHANGED << winVars, envVars, geomVars, loopVars >>

\* mutant: the fragment compile status is not acted on
FragmentCheckIgnored == FALSE

\* if (!success) after glGetShaderiv(fragment_shader_id, ...)
FragmentCheckFails == ~fsCompiled

FragmentFailedMessage == "Fatal Error - Compilation of fragment shader failed"

CheckFragment ==
    /\ pc = "fsCheck"
    /\ IF FragmentCheckFails
       THEN /\ stdout' = Append(stdout, FragmentFailedMessage)
            /\ Step("exited", << Call("glGetShaderiv", << FS_ID >>),
                                 Call("glGetShaderInfoLog", << FS_ID, INFO_LOG_SIZE >>) >>)
            /\ Exit(EXIT_FAILURE_CODE)
       ELSE /\ Step("deleteShaders", << Call("glGetShaderiv", << FS_ID >>) >>)
            /\ UNCHANGED << stdout, exitStatus >>
    /\ UNCHANGED << winVars, envVars, shaderVars, geomVars, loopVars >>

\* mutant: the vertex shader is deleted twice, the fragment shader never
DeleteShadersVertexTwice ==
    /\ pc = "deleteShaders"
    /\ vsState' = "deleted"
    /\ fsState' = fsState
    /\ Step("genObjects", << Call("glDeleteShader", << VS_ID >>),
                             Call("glDeleteShader", << VS_ID >>) >>)
    /\ UNCHANGED << stdout, exitStatus, vsCompiled, fsCompiled, progState, activeProgram >>
    /\ UNCHANGED << winVars, envVars, geomVars, loopVars >>

\* glDeleteShader of both shaders; get_shader_program returns the program
DeleteShaders ==
    /\ pc = "deleteShaders"
    /\ vsState' = "deleted"
    /\ fsState' = "deleted"
    /\ Step("genObjects", << Call("glDeleteShader", << VS_ID >>),
                             Call("glDeleteShader", << FS_ID >>) >>)
    /\ UNCHANGED << stdout, exitStatus, vsCompiled, fsCompiled, progState, activeProgram >>
    /\ UNCHANGED << winVars, envVars, geomVars, loopVars >>

(* ======================= main: geometry upload ======================= *)

\* glGenVertexArrays(1, &vao_id); glGenBuffers(1, &vbo_id)
GenObjects ==
    /\ pc = "genObjects"
    /\ vaoState' = "gen"
    /\ vboState' = "gen"
    /\ Step("bindVAO", << Call("glGenVertexArrays", << VAO_ID >>),
                          Call("glGenBuffers", << VBO_ID >>) >>)
    /\ UNCHANGED << stdout, exitStatus, boundVAO, boundVBO, attrib0, vboData >>
    /\ UNCHANGED << winVars, envVars, shaderVars, loopVars >>

\* mutant: the vertex array object is not bound before it is configured
BindVAOForgotten ==
    /\ pc = "bindVAO"
    /\ Step("bindVBO", << >>)
    /\ UNCHANGED << stdout, exitStatus >>
    /\ UNCHANGED << winVars, envVars, shaderVars, geomVars, loopVars >>

BindVAO ==
    /\ pc = "bindVAO"
    /\ boundVAO' = VAO_ID
    /\ Step("bindVBO", << Call("glBindVertexArray", << VAO_ID >>) >>)
    /\ UNCHANGED << stdout, exitStatus, vaoState, vboState, boundVBO, attrib0, vboData >>
    /\ UNCHANGED << winVars, envVars, shaderVars, loopVars >>

BindVBO ==
    /\ pc = "bindVBO"
    /\ boundVBO' = VBO_ID
    /\ Step("bufferData", << Call("glBindBuffer", << VBO_ID >>) >>)
    /\ UNCHANGED << stdout, exitStatus, vaoState, vboState, boundVAO, attrib0, vboData >>
    /\ UNCHANGED << winVars, envVars, shaderVars, loopVars >>

\* mutant: the size passed is the element count, 9 bytes, which holds the
\* first two floats only
BufferDataElementCount ==
    /\ pc = "bufferData"
    /\ vboData' = IF boundVBO = VBO_ID THEN SubSeq(vertices, 1, 2) ELSE vboData
    /\ Step("attribPointer", << Call("glBufferData", << 2 >>) >>)
    /\ UNCHANGED << stdout, exitStatus, vaoState, vboState, boundVAO, boundVBO, attrib0 >>
    /\ UNCHANGED << winVars, envVars, shaderVars, loopVars >>

\* glBufferData(GL_ARRAY_BUFFER, sizeof(vertices), vertices, GL_STATIC_DRAW)
\* writes the buffer bound to GL_ARRAY_BUFFER
BufferData ==
    /\ pc = "bufferData"
    /\ vboData' = IF boundVBO = VBO_ID THEN vertices ELSE vboData
    /\ Step("attribPointer", << Call("glBufferData", << Len(vertices) >>) >>)
    /\ UNCHANGED << stdout, exitStatus, vaoState, vboState, boundVAO, boundVBO, attrib0 >>
    /\ UNCHANGED << winVars, envVars, shaderVars, loopVars >>

\* glVertexAttribPointer(0, 3, GL_FLOAT, GL_FALSE, 3 * sizeof(float), 0)
\* records the buffer bound to GL_ARRAY_BUFFER in the bound vertex array
VertexAttribPointer ==
    /\ pc = "attribPointer"
    /\ attrib0' = IF boundVAO = VAO_ID
                  THEN [attrib0 EXCEPT !.buffer = boundVBO, !.size = 3,
                                       !.stride = 3, !.offset = 0]
                  ELSE attrib0
    /\ Step("enableAttrib", << Call("glVertexAttribPointer", << 0, 3, 3, 0 >>) >>)
    /\ UNCHANGED << stdout, exitStatus, vaoState, vboState, boundVAO, boundVBO, vboData >>
    /\ UNCHANGED << winVars, envVars, shaderVars, loopVars >>

EnableVertexAttribArray ==
    /\ pc = "enableAttrib"
    /\ attrib0' = IF boundVAO = VAO_ID THEN [attrib0 EXCEPT !.enabled = TRUE] ELSE attrib0
    /\ Step("unbindVBO", << Call("glEnableVertexAttribArray", << 0 >>) >>)
    /\ UNCHANGED << stdout, exitStatus, vaoState, vboState, boundVAO, boundVBO, vboData >>
    /\ UNCHANGED << winVars, envVars, shaderVars, loopVars >>

UnbindVBO ==
    /\ pc = "unbindVBO"
    /\ boundVBO' = 0
    /\ Step("unbindVAO", << Call("glBindBuffer", << 0 >>) >>)
    /\ UNCHANGED << stdout, exitStatus, vaoState, vboState, boundVAO, attrib0, vboData >>
    /\ UNCHANGED << winVars, envVars, shaderVars, loopVars >>

UnbindVAO ==
    /\ pc = "unbindVAO"
    /\ boundVAO' = 0
    /\ Step("loopCond", << Call("glBindVertexArray", << 0 >>) >>)
    /\ UNCHANGED << stdout, exitStatus, vaoState, vboState, boundVBO, attrib0, vboData >>
    /\ UNCHANGED << winVars, envVars, shaderVars, loopVars >>

(* ======================= main: render loop ======================= *)

\* a step of the program inside a loop iteration
LoopStep(next, cs) ==
    /\ pc' = next
    /\ calls' = calls \o cs
    /\ iterCalls' = iterCalls \o cs
    /\ frames' = frames

\* the statements of the loop body
BodyPcs == { "processInput", "clear", "useProgram", "bindVAOdraw", "draw", "swap", "poll" }

\* the loop is RUNNING inside an iteration whose close flag is not set
Running == pc \in BodyPcs /\ ~shouldClose

\* mutant: the loop never reads the close flag
LoopContinuesAlways == TRUE

\* mutant: the loop tests the escape key instead of the close flag
LoopContinuesUntilKey == keyState # "press"

\* while (!glfwWindowShouldClose(window))
LoopContinues == ~shouldClose

LoopCond ==
    /\ pc = "loopCond"
    /\ calls' = calls \o << Call("glfwWindowShouldClose", << >>) >>
    /\ IF LoopContinues
       THEN /\ frames < MaxFrames
            /\ frames' = frames + 1
            /\ iterCalls' = << >>
            /\ pc' = "processInput"
       ELSE /\ pc' = "deleteVAO"
            /\ UNCHANGED << frames, iterCalls >>
    /\ UNCHANGED << stdout, exitStatus >>
    /\ UNCHANGED << winVars, envVars, shaderVars, geomVars >>

\* glfwGetKey(window, GLFW_KEY_ESCAPE) == GLFW_PRESS
EscapePressed == keyState = "press"

\* mutant: on escape the rest of the iteration is skipped
ProcessInputSkipsFrame ==
    /\ pc = "processInput"
    /\ IF EscapePressed
       THEN /\ shouldClose' = TRUE
            /\ LoopStep("loopCond", << Call("glfwGetKey", << >>),
                                       Call("glfwSetWindowShouldClose", << 1 >>) >>)
       ELSE /\ shouldClose' = shouldClose
            /\ LoopStep("clear", << Call("glfwGetKey", << >>) >>)
    /\ escTrack' = IF escTrack = "delivered"
                   THEN (IF shouldClose' THEN "seen" ELSE "missed")
                   ELSE escTrack
    /\ UNCHANGED << stdout, exitStatus, physKey, events, nEvents >>
    /\ UNCHANGED << glfwOk, window, context, loaded, fbSize, viewport, callbackSet, keyState >>
    /\ UNCHANGED << shaderVars, geomVars >>

\* process_input
ProcessInput ==
    /\ pc = "processInput"
    /\ IF EscapePressed
       THEN /\ shouldClose' = TRUE
            /\ LoopStep("clear", << Call("glfwGetKey", << >>),
                                    Call("glfwSetWindowShouldClose", << 1 >>) >>)
       ELSE /\ shouldClose' = shouldClose
            /\ LoopStep("clear", << Call("glfwGetKey", << >>) >>)
    /\ escTrack' = IF escTrack = "delivered"
                   THEN (IF shouldClose' THEN "seen" ELSE "missed")
                   ELSE escTrack
    /\ UNCHANGED << stdout, exitStatus, physKey, events, nEvents >>
    /\ UNCHANGED << glfwOk, window, context, loaded, fbSize, viewport, callbackSet, keyState >>
    /\ UNCHANGED << shaderVars, geomVars >>

\* glClearColor(0.2, 0.3, 0.3, 1.0) in tenths; glClear(GL_COLOR_BUFFER_BIT)
Clear ==
    /\ pc = "clear"
    /\ LoopStep("useProgram", << Call("glClearColor", << 2, 3, 3, 10 >>),
                                 Call("glClear", << >>) >>)
    /\ UNCHANGED << stdout, exitStatus >>
    /\ UNCHANGED << winVars, envVars, shaderVars, geomVars >>

UseProgram ==
    /\ pc = "useProgram"
    /\ activeProgram' = UseProgramResult(PROG_ID, progState, activeProgram)
    /\ LoopStep("bindVAOdraw", << Call("glUseProgram", << PROG_ID >>) >>)
    /\ UNCHANGED << stdout, exitStatus, vsState, fsState, vsCompiled, fsCompiled, progState >>
    /\ UNCHANGED << winVars, envVars, geomVars >>

BindVAOForDraw ==
    /\ pc = "bindVAOdraw"
    /\ boundVAO' = VAO_ID
    /\ LoopStep("draw", << Call("glBindVertexArray", << VAO_ID >>) >>)
    /\ UNCHANGED << stdout, exitStatus, vaoState, vboState, boundVBO, attrib0, vboData >>
    /\ UNCHANGED << winVars, envVars, shaderVars >>

\* mutant: the count is the number of floats, not of vertices
DrawCallNineVertices == Call("glDrawArrays", << GL_TRIANGLES, 0, 9 >>)

\* glDrawArrays(GL_TRIANGLES, 0, 3)
DrawCall == Call("glDrawArrays", << GL_TRIANGLES, 0, 3 >>)

\* mutant: the viewport is reset to the initial one before every draw
DrawArraysResetViewport ==
    /\ pc = "draw"
    /\ viewport' = InitialViewport
    /\ LoopStep("swap", << Call("glViewport", InitialViewport), DrawCall >>)
    /\ UNCHANGED << stdout, exitStatus >>
    /\ UNCHANGED << glfwOk, window, context, loaded, fbSize, callbackSet, shouldClose, keyState >>
    /\ UNCHANGED << envVars, shaderVars, geomVars >>

DrawArrays ==
    /\ pc = "draw"
    /\ LoopStep("swap", << DrawCall >>)
    /\ UNCHANGED << stdout, exitStatus >>
    /\ UNCHANGED << winVars, envVars, shaderVars, geomVars >>

SwapBuffers ==
    /\ pc = "swap"
    /\ LoopStep("poll", << Call("glfwSwapBuffers", << >>) >>)
    /\ UNCHANGED << stdout, exitStatus >>
    /\ UNCHANGED << winVars, envVars, shaderVars, geomVars >>

(* ---- event delivery ---- *)

\* mutant: width and height swapped
framebuffer_size_callback_swapped(width, height) == << 0, 0, height, width >>

\* framebuffer_size_callback(window, width, height): glViewport(0, 0, width, height)
framebuffer_size_callback(width, height) == << 0, 0, width, height >>

RECURSIVE KeyAfter(_, _)
\* GLFW's cached key state after the key events of evs
KeyAfter(k, evs) ==
    IF evs = << >> THEN k
    ELSE KeyAfter(IF Head(evs).t \in {"press", "release"} THEN Head(evs).t ELSE k,
                  Tail(evs))

RECURSIVE ViewportAfter(_, _)
\* the viewport after the resize callbacks of evs have run
ViewportAfter(v, evs) ==
    IF evs = << >> THEN v
    ELSE ViewportAfter(IF Head(evs).t = "resize"
                       THEN framebuffer_size_callback(Head(evs).w, Head(evs).h)
                       ELSE v,
                       Tail(evs))

RECURSIVE CallbackCalls(_)
\* the glViewport calls the resize callbacks of evs make
CallbackCalls(evs) ==
    IF evs = << >> THEN << >>
    ELSE (IF Head(evs).t = "resize"
          THEN << Call("glViewport", framebuffer_size_callback(Head(evs).w, Head(evs).h)) >>
          ELSE << >>) \o CallbackCalls(Tail(evs))

HasEvent(evs, t) == \E i \in 1..Len(evs) : evs[i].t = t

\* glfwPollEvents: every queued event is delivered, in order
PollEvents ==
    /\ pc = "poll"
    /\ keyState' = KeyAfter(keyState, events)
    /\ shouldClose' = (shouldClose \/ HasEvent(events, "close"))
    /\ viewport' = IF callbackSet THEN ViewportAfter(viewport, events) ELSE viewport
    /\ LoopStep("loopCond", << Call("glfwPollEvents", << >>) >>
                            \o (IF callbackSet THEN CallbackCalls(events) ELSE << >>))
    /\ events' = << >>
    /\ escTrack' = IF escTrack = "pressed" THEN "delivered" ELSE escTrack
    /\ UNCHANGED << stdout, exitStatus, physKey, nEvents >>
    /\ UNCHANGED << glfwOk, window, context, loaded, fbSize, callbackSet >>
    /\ UNCHANGED << shaderVars, geomVars >>

(* ======================= main: shutdown ======================= *)

\* glDeleteVertexArrays(1, &vao_id): a bound vertex array is unbound
DeleteVAO ==
    /\ pc = "deleteVAO"
    /\ vaoState' = "deleted"
    /\ boundVAO' = IF boundVAO = VAO_ID THEN 0 ELSE boundVAO
    /\ Step("deleteVBO", << Call("glDeleteVertexArrays", << VAO_ID >>) >>)
    /\ UNCHANGED << stdout, exitStatus, vboState, boundVBO, attrib0, vboData >>
    /\ UNCHANGED << winVars, envVars, shaderVars, loopVars >>

DeleteVBO ==
    /\ pc = "deleteVBO"
    /\ vboState' = "deleted"
    /\ boundVBO' = IF boundVBO = VBO_ID THEN 0 ELSE boundVBO
    /\ Step("deleteProgram", << Call("glDeleteBuffers", << VBO_ID >>) >>)
    /\ UNCHANGED << stdout, exitStatus, vaoState, boundVAO, attrib0, vboData >>
    /\ UNCHANGED << winVars, envVars, shaderVars, loopVars >>

\* mutant: the program is never released
DeleteProgramForgotten ==
    /\ pc = "deleteProgram"
    /\ Step("terminate", << >>)
    /\ UNCHANGED << stdout, exitStatus >>
    /\ UNCHANGED << winVars, envVars, shaderVars, geomVars, loopVars >>

\* glDeleteProgram(shader_program_id)
DeleteProgram ==
    /\ pc = "deleteProgram"
    /\ progState' = "deleted"
    /\ Step("terminate", << Call("glDeleteProgram", << PROG_ID >>) >>)
    /\ UNCHANGED << stdout, exitStatus, vsState, fsState, vsCompiled, fsCompiled, activeProgram >>
    /\ UNCHANGED << winVars, envVars, geomVars, loopVars >>

\* mutant: a GL call is made after the library has been terminated
TerminateThenUnbind ==
    /\ pc = "terminate"
    /\ window' = "destroyed"
    /\ context' = FALSE
    /\ Step("exited", << Call("glfwTerminate", << >>), Call("glUseProgram", << 0 >>) >>)
    /\ Exit(0)
    /\ UNCHANGED << stdout, glfwOk, loaded, fbSize, viewport, callbackSet,
                    shouldClose, keyState >>
    /\ UNCHANGED << envVars, shaderVars, geomVars, loopVars >>

\* glfwTerminate(); return 0;
Terminate ==
    /\ pc = "terminate"
    /\ window' = "destroyed"
    /\ context' = FALSE
    /\ Step("exited", << Call("glfwTerminate", << >>) >>)
    /\ Exit(0)
    /\ UNCHANGED << stdout, glfwOk, loaded, fbSize, viewport, callbackSet,
                    shouldClose, keyState >>
    /\ UNCHANGED << envVars, shaderVars, geomVars, loopVars >>

(* ======================= the window system ======================= *)

\* the window system can produce an event for an open window of a live process
CanProduce == window = "open" /\ exitStatus = << >> /\ nEvents < MaxEvents

Produce(e) ==
    /\ events' = Append(events, e)
    /\ nEvents' = nEvents + 1

UserPressEscape ==
    /\ CanProduce
    /\ physKey = "up"
    /\ physKey' = "down"
    /\ Produce(Event("press", 0, 0))
    /\ escTrack' = IF Running /\ escTrack # "missed" THEN "pressed" ELSE escTrack
    /\ UNCHANGED << progVars, winVars, shaderVars, geomVars, loopVars >>

UserReleaseEscape ==
    /\ CanProduce
    /\ physKey = "down"
    /\ physKey' = "up"
    /\ Produce(Event("release", 0, 0))
    /\ UNCHANGED << escTrack, progVars, winVars, shaderVars, geomVars, loopVars >>

\* the user or the OS resizes the window: its framebuffer changes at once,
\* the program hears of it at the next event delivery
ResizeFramebuffer ==
    /\ CanProduce
    /\ \E s \in ResizedFbSizes \ { fbSize } :
         /\ fbSize' = s
         /\ Produce(Event("resize", s[1], s[2]))
    /\ UNCHANGED << physKey, escTrack, progVars, shaderVars, geomVars, loopVars >>
    /\ UNCHANGED << glfwOk, window, context, loaded, viewport, callbackSet,
                    shouldClose, keyState >>

\* the user clicks the window's close button
RequestClose ==
    /\ CanProduce
    /\ Produce(Event("close", 0, 0))
    /\ UNCHANGED << physKey, escTrack, progVars, winVars, shaderVars, geomVars, loopVars >>

(* ======================= specification ======================= *)

Next ==
    \/ GlfwInit \/ CreateWindow \/ MakeContextCurrent \/ LoadGL
    \/ InitViewport \/ SetCallback
    \/ CompileVertex \/ CheckVertex \/ CompileFragment \/ LinkProgram
    \/ CheckFragment \/ DeleteShaders
    \/ GenObjects \/ BindVAO \/ BindVBO \/ BufferData \/ VertexAttribPointer
    \/ EnableVertexAttribArray \/ UnbindVBO \/ UnbindVAO
    \/ LoopCond \/ ProcessInput \/ Clear \/ UseProgram \/ BindVAOForDraw
    \/ DrawArrays \/ SwapBuffers \/ PollEvents
    \/ DeleteVAO \/ DeleteVBO \/ DeleteProgram \/ Terminate
    \/ UserPressEscape \/ UserReleaseEscape \/ ResizeFramebuffer \/ RequestClose

Spec == Init /\ [][Next]_vars

\* the steps of the program's single thread
ProgramNext ==
    \/ GlfwInit \/ CreateWindow \/ MakeContextCurrent \/ LoadGL
    \/ InitViewport \/ SetCallback
    \/ CompileVertex \/ CheckVertex \/ CompileFragment \/ LinkProgram
    \/ CheckFragment \/ DeleteShaders
    \/ GenObjects \/ BindVAO \/ BindVBO \/ BufferData \/ VertexAttribPointer
    \/ EnableVertexAttribArray \/ UnbindVBO \/ UnbindVAO
    \/ LoopCond \/ ProcessInput \/ Clear \/ UseProgram \/ BindVAOForDraw
    \/ DrawArrays \/ SwapBuffers \/ PollEvents
    \/ DeleteVAO \/ DeleteVBO \/ DeleteProgram \/ Terminate

\* the thread is never suspended for good: no call of the program blocks
\* forever, so a statement that can run does run
FairSpec == Spec /\ WF_vars(ProgramNext)

(* ======================= properties ======================= *)

CallIdx(f) == { i \in 1..Len(calls) : calls[i].f = f }
CountCalls(f) == Cardinality(CallIdx(f))
Called(f) == CallIdx(f) # { }

\* the input check has requested the close
InputCloseIdx == CallIdx("glfwSetWindowShouldClose")
\* draw calls issued after the input check requested the close
DrawsAfterInputClose ==
    Cardinality({ j \in CallIdx("glDrawArrays") : \E i \in InputCloseIdx : i < j })

\* C1 (as stated): once process_input has seen escape pressed and requested
\* the close, no glDrawArrays call is issued afterward.
C1_NoDrawAfterInputClose == DrawsAfterInputClose = 0

\* C1 (amended): process_input requests the close at most once; the draw call
\* of the iteration in which it did so is still issued, so exactly one
\* glDrawArrays call follows the request once that iteration has drawn, and
\* no draw call is issued after that iteration.
C1_OneDrawAfterInputClose ==
    /\ Cardinality(InputCloseIdx) <= 1
    /\ InputCloseIdx # { } =>
         /\ shouldClose
         /\ DrawsAfterInputClose =
              (IF pc \in { "clear", "useProgram", "bindVAOdraw", "draw" } THEN 0 ELSE 1)

C1_Witness ==
    /\ pc = "exited"
    /\ InputCloseIdx # { }
    /\ DrawsAfterInputClose = 1

\* C2 (as stated): every press of escape during a RUNNING iteration, a press
\* released before the next event delivery included, has closed the loop by
\* the input check that follows the delivery of the press.
C2_EveryPressCloses == escTrack # "missed"

(* ---- C3 ---- *)
ProgramCreated == Called("glCreateProgram")
VaoCreated == Called("glGenVertexArrays")
VboCreated == Called("glGenBuffers")

\* calls that name the program, the vertex array, the vertex buffer
RefersToProgram(c) ==
    /\ c.f \in { "glAttachShader", "glLinkProgram", "glUseProgram", "glDeleteProgram" }
    /\ c.a[1] = PROG_ID
RefersToVao(c) ==
    \/ c.f \in { "glBindVertexArray", "glDeleteVertexArrays" } /\ c.a[1] = VAO_ID
    \/ c.f = "glDrawArrays"
RefersToVbo(c) ==
    \/ c.f \in { "glBindBuffer", "glDeleteBuffers" } /\ c.a[1] = VBO_ID
    \/ c.f \in { "glBufferData", "glVertexAttribPointer", "glDrawArrays" }

NoUseAfterRelease ==
    \A i \in 1..Len(calls) : \A j \in 1..Len(calls) :
      i < j =>
        /\ calls[i].f = "glDeleteProgram" => ~RefersToProgram(calls[j]) /\ calls[j].f # "glDrawArrays"
        /\ calls[i].f = "glDeleteVertexArrays" => ~RefersToVao(calls[j])
        /\ calls[i].f = "glDeleteBuffers" => ~RefersToVbo(calls[j])

AllCreatedReleasedOnce ==
    /\ ProgramCreated => CountCalls("glDeleteProgram") = 1
    /\ VaoCreated => CountCalls("glDeleteVertexArrays") = 1
    /\ VboCreated => CountCalls("glDeleteBuffers") = 1

FragmentFailureExit == pc = "exited" /\ stdout = << FragmentFailedMessage >>

WindowCreationFailed == pc = "exited" /\ window = "none"
LoaderFailed == pc = "exited" /\ window = "open" /\ context /\ ~loaded
VertexCompileFailed == pc = "exited" /\ vsState # "none" /\ ~vsCompiled
FragmentCompileFailed == pc = "exited" /\ fsState # "none" /\ ~fsCompiled
\* the loop condition was evaluated and found the close flag set
LoopEndedByClose == Called("glfwWindowShouldClose") /\ shouldClose /\ pc \notin BodyPcs \cup { "loopCond" }

\* C4: the exit status is 0 exactly when the render loop ended through a
\* close request and -1 on each of the four failures, each of which has
\* written exactly one diagnostic, its own, to standard output.
C4_ExitStatus ==
    /\ pc = "exited" <=> exitStatus # << >>
    /\ pc = "exited" =>
        /\ exitStatus \in { << 0 >>, << -1 >> }
        /\ exitStatus = << 0 >> <=> LoopEndedByClose
        /\ exitStatus = << 0 >> => stdout = << >>
        /\ WindowCreationFailed => exitStatus = << -1 >> /\ stdout = << WindowFailedMessage >>
        /\ LoaderFailed => exitStatus = << -1 >> /\ stdout = << GladFailedMessage >>
        /\ VertexCompileFailed => exitStatus = << -1 >> /\ stdout = << VertexFailedMessage >>
        /\ FragmentCompileFailed => exitStatus = << -1 >> /\ stdout = << FragmentFailedMessage >>
        /\ exitStatus = << -1 >> =>
             WindowCreationFailed \/ LoaderFailed \/ VertexCompileFailed \/ FragmentCompileFailed

C4_Witness ==
    /\ FragmentCompileFailed
    /\ exitStatus = << -1 >>
    /\ stdout = << FragmentFailedMessage >>

(* ---- C5 ---- *)
\* C5: if the vertex shader fails to compile the process terminates with a
\* non-zero status and never reaches the render loop: no fragment shader is
\* created, no program linked, no geometry uploaded, nothing cleared, drawn
\* or presented.
C5_VertexFailureIsFatal ==
    (vsState # "none" /\ ~vsCompiled) =>
        /\ pc \in { "vsCheck", "exited" }
        /\ pc = "exited" => exitStatus # << 0 >> /\ exitStatus # << >>
        /\ CountCalls("glCreateShader") = 1
        /\ ~Called("glCreateProgram") /\ ~Called("glLinkProgram")
        /\ ~Called("glGenBuffers") /\ ~Called("glBufferData")
        /\ ~Called("glfwWindowShouldClose") /\ frames = 0
        /\ ~Called("glClear") /\ ~Called("glDrawArrays") /\ ~Called("glfwSwapBuffers")

C5_Witness == pc = "exited" /\ vsState = "created" /\ ~vsCompiled /\ exitStatus = << -1 >>

ResizeCount(evs) == Cardinality({ i \in 1..Len(evs) : evs[i].t = "resize" })

\* C7: an event delivery that carries resize events runs the callback once
\* per resize event, each setting the viewport at origin (0,0) with a size
\* the framebuffer was given, and leaves the viewport equal to the current
\* framebuffer size.
C7_ResizeSetsViewport ==
    [][ (pc = "poll" /\ pc' = "loopCond" /\ HasEvent(events, "resize")) =>
          /\ viewport' = << 0, 0, fbSize'[1], fbSize'[2] >>
          /\ Len(calls') = Len(calls) + 1 + ResizeCount(events)
          /\ \A i \in (Len(calls) + 2)..Len(calls') :
               /\ calls'[i].f = "glViewport"
               /\ calls'[i].a[1] = 0 /\ calls'[i].a[2] = 0
               /\ << calls'[i].a[3], calls'[i].a[4] >> \in ResizedFbSizes ]_vars

C7_Witness ==
    /\ pc = "loopCond"
    /\ frames >= 1
    /\ viewport # InitialViewport
    /\ viewport = << 0, 0, fbSize[1], fbSize[2] >>
    /\ calls[Len(calls)].f = "glViewport"

(* ---- C8 ---- *)
IterationOrder ==
    << "glfwGetKey", "glClearColor", "glClear", "glUseProgram", "glBindVertexArray",
       "glDrawArrays", "glfwSwapBuffers", "glfwPollEvents" >>

\* the calls of the iteration without the close request of the input check
\* and the viewport calls of the resize callbacks
CoreIterCalls == SelectSeq(iterCalls, LAMBDA c : c.f \notin { "glfwSetWindowShouldClose", "glViewport" })

\* how many of the steps of the body the iteration has performed at pc
StepsDoneAt(p) ==
    CASE p = "processInput" -> 0
      [] p = "clear" -> 1
      [] p = "useProgram" -> 3
      [] p = "bindVAOdraw" -> 4
      [] p = "draw" -> 5
      [] p = "swap" -> 6
      [] p = "poll" -> 7
      [] OTHER -> 8

\* C8: every iteration performs, in order and once each, the input check,
\* the clear, the activation of the program and of the vertex array, one
\* glDrawArrays(GL_TRIANGLES, 0, 3), the present and the event delivery; the
\* draw calls issued are as many as the iterations that have reached their
\* draw, hence as many as the iterations entered whenever no iteration is
\* under way.
C8_IterationOrder ==
    frames >= 1 =>
        /\ Len(CoreIterCalls) = StepsDoneAt(pc)
        /\ \A i \in 1..Len(CoreIterCalls) : CoreIterCalls[i].f = IterationOrder[i]
        /\ \A i \in 1..Len(iterCalls) :
             /\ iterCalls[i].f = "glfwSetWindowShouldClose" => i = 2
             /\ iterCalls[i].f = "glViewport" => i > 1 /\ iterCalls[i-1].f \in { "glfwPollEvents", "glViewport" }
             /\ iterCalls[i].f = "glUseProgram" => iterCalls[i].a = << PROG_ID >>
             /\ iterCalls[i].f = "glBindVertexArray" => iterCalls[i].a = << VAO_ID >>
             /\ iterCalls[i].f = "glDrawArrays" => iterCalls[i].a = << GL_TRIANGLES, 0, 3 >>
        /\ CountCalls("glDrawArrays") = (IF StepsDoneAt(pc) >= 6 THEN frames ELSE frames - 1)
        /\ CountCalls("glfwSwapBuffers") = (IF StepsDoneAt(pc) >= 7 THEN frames ELSE frames - 1)
        /\ CountCalls("glClear") = (IF StepsDoneAt(pc) >= 3 THEN frames ELSE frames - 1)
        /\ CountCalls("glfwGetKey") = (IF StepsDoneAt(pc) >= 1 THEN frames ELSE frames - 1)
        /\ CountCalls("glfwPollEvents") = (IF StepsDoneAt(pc) >= 8 THEN frames ELSE frames - 1)

C8_Witness ==
    /\ pc = "loopCond"
    /\ frames = 2
    /\ CountCalls("glDrawArrays") = 2
    /\ Len(CoreIterCalls) = 8

(* ---- C9 ---- *)
\* C9 (as stated): if the fragment shader fails to compile, the process
\* terminates without glLinkProgram or glUseProgram ever having been called.
C9_NoLinkBeforeFragmentCheck ==
    (fsState # "none" /\ ~fsCompiled) => ~Called("glLinkProgram") /\ ~Called("glUseProgram")

(* ---- C10 ---- *)
\* C10 (as stated): whenever glDrawArrays has just been issued, the program
\* in use is a successfully linked program, also when glLinkProgram failed.
C10_DrawUsesLinkedProgram ==
    pc = "swap" => progState = "linked" /\ activeProgram = PROG_ID

(* ---- C11 ---- *)
DeleteFunctions ==
    { "glDeleteShader", "glDeleteProgram", "glDeleteVertexArrays", "glDeleteBuffers" }
NoDeleteCalls == \A i \in 1..Len(calls) : calls[i].f \notin DeleteFunctions

\* C11 (as stated): on both setup failures (no window; loader failure) the
\* process exits without any teardown call, glfwTerminate or a delete.
C11_NoTeardownOnSetupFailure ==
    (WindowCreationFailed \/ LoaderFailed) => ~Called("glfwTerminate") /\ NoDeleteCalls

\* C11 (amended): on a loader failure the process exits without any teardown
\* call, the loader call being its last API call; on a window-creation
\* failure it calls glfwTerminate once, right after glfwCreateWindow and
\* right before exiting, and makes no delete call.
C11_TeardownOnlyOnWindowFailure ==
    /\ LoaderFailed =>
         /\ ~Called("glfwTerminate") /\ NoDeleteCalls
         /\ calls[Len(calls)].f = "gladLoadGLLoader"
    /\ WindowCreationFailed =>
         /\ CountCalls("glfwTerminate") = 1 /\ NoDeleteCalls
         /\ calls[Len(calls)].f = "glfwTerminate"
         /\ calls[Len(calls) - 1].f = "glfwCreateWindow"

C11_Witness ==
    /\ WindowCreationFailed
    /\ glfwOk
    /\ calls[Len(calls)].f = "glfwTerminate"

(* ---- C12 ---- *)
ShutdownPcs == { "deleteVAO", "deleteVBO", "deleteProgram", "terminate" }
\* the loop condition has been found false
LoopEnded == Called("glfwWindowShouldClose") /\ pc \notin BodyPcs \cup { "loopCond" }

\* C12: once the close flag is set it is never cleared; the evaluation of
\* the loop condition that follows leaves the loop and the body is not
\* entered again; the process then runs the shutdown and exits with status
\* 0.  The body is entered, and the loop left, only from the loop condition,
\* which is evaluated once per iteration plus once to leave.
C12_ClosingIsTerminal ==
    /\ [][shouldClose => shouldClose']_vars
    /\ [][(pc = "loopCond" /\ shouldClose /\ pc' # pc) => pc' = "deleteVAO"]_vars
    /\ [][(pc' \in BodyPcs /\ pc \notin BodyPcs) => (pc = "loopCond" /\ ~shouldClose)]_vars
    /\ [][(pc' \in ShutdownPcs /\ pc \notin ShutdownPcs) => (pc = "loopCond" /\ shouldClose)]_vars
    /\ [](CountCalls("glfwWindowShouldClose") = frames + (IF LoopEnded THEN 1 ELSE 0))
    /\ [](LoopEnded => shouldClose)
    /\ shouldClose ~> (/\ pc = "exited" /\ exitStatus = << 0 >>
                       /\ Called("glDeleteVertexArrays") /\ Called("glDeleteBuffers")
                       /\ Called("glDeleteProgram") /\ Called("glfwTerminate"))

C12_Witness ==
    /\ pc = "exited"
    /\ exitStatus = << 0 >>
    /\ shouldClose
    /\ InputCloseIdx = { }
    /\ frames >= 1

(* ---- C13 ---- *)
\* calls made only by the render loop
LoopFunctions ==
    { "glfwWindowShouldClose", "glfwGetKey", "glfwSetWindowShouldClose", "glClearColor",
      "glClear", "glDrawArrays", "glfwSwapBuffers", "glfwPollEvents" }
ReleaseFunctions == { "glDeleteVertexArrays", "glDeleteBuffers", "glDeleteProgram" }

\* C13: on the normal exit path the three releases come after everything
\* the loop does and before glfwTerminate, which is the last API call; on
\* no path is any call made after glfwTerminate.
C13_ShutdownOrder ==
    /\ \A i \in 1..Len(calls) : calls[i].f = "glfwTerminate" => i = Len(calls)
    /\ \A i \in 1..Len(calls) : \A j \in 1..Len(calls) :
         (calls[i].f \in ReleaseFunctions /\ calls[j].f \in LoopFunctions) => j < i
    /\ (pc = "exited" /\ exitStatus = << 0 >>) =>
         LET n == Len(calls) IN
           /\ calls[n].f = "glfwTerminate"
           /\ { calls[k].f : k \in (n - 3)..(n - 1) } = ReleaseFunctions
           /\ calls[n - 4].f = "glfwWindowShouldClose"
           /\ frames >= 1 => calls[n - 5].f \in { "glfwPollEvents", "glViewport" }

C13_Witness ==
    /\ pc = "exited"
    /\ exitStatus = << 0 >>
    /\ frames >= 2
    /\ calls[Len(calls)].f = "glfwTerminate"
    /\ calls[Len(calls) - 1].f = "glDeleteProgram"

(* ---- C14 ---- *)
\* attribute 0 as lines 57-72 declare it, sourcing the vertex buffer
DeclaredAttrib == [buffer |-> VBO_ID, size |-> 3, stride |-> 3, offset |-> 0, enabled |-> TRUE]

\* C14: the upload, the declaration of attribute 0 and its enabling all run
\* while the vertex array object and the vertex buffer are bound; both are
\* unbound only once attribute 0 is declared and enabled; at every draw call
\* the bound vertex array is the one whose attribute 0 sources the uploaded
\* buffer.
C14_ConfiguredAsPair ==
    /\ pc \in { "bufferData", "attribPointer", "enableAttrib" } =>
         boundVAO = VAO_ID /\ boundVBO = VBO_ID
    /\ pc \in { "attribPointer", "enableAttrib" } => vboData = vertices
    /\ pc = "enableAttrib" => attrib0 = [DeclaredAttrib EXCEPT !.enabled = FALSE]
    /\ pc = "unbindVBO" => boundVAO = VAO_ID /\ boundVBO = VBO_ID /\ attrib0 = DeclaredAttrib
    /\ pc = "unbindVAO" => boundVAO = VAO_ID /\ boundVBO = 0 /\ attrib0 = DeclaredAttrib
    /\ (Called("glBindBuffer") /\ boundVBO = 0) => attrib0 = DeclaredAttrib
    /\ pc \in { "draw", "swap" } =>
         /\ boundVAO = VAO_ID /\ vaoState = "gen" /\ vboState = "gen"
         /\ attrib0 = DeclaredAttrib
         /\ vboData = vertices

C14_Witness ==
    /\ pc = "swap"
    /\ frames >= 2
    /\ boundVAO = VAO_ID
    /\ attrib0 = DeclaredAttrib

(* ---- C15 ---- *)
\* C15: from the one upload at startup until the buffer is released, the
\* vertex buffer holds the 9 values -0.5,-0.5,0, 0.5,-0.5,0, 0,0.5,0 (in
\* tenths here), whatever number of iterations and resize callbacks have run.
C15_BufferImmutable ==
    /\ CountCalls("glBufferData") <= 1
    /\ (Called("glBufferData") /\ vboState = "gen") =>
         /\ Len(vboData) = 9
         /\ vboData = << -5, -5, 0, 5, -5, 0, 0, 5, 0 >>
    /\ ~Called("glBufferData") => vboData = << >>

C15_Witness ==
    /\ pc = "loopCond"
    /\ frames >= 2
    /\ Called("glViewport") /\ viewport # InitialViewport
    /\ vboState = "gen"
    /\ vboData = << -5, -5, 0, 5, -5, 0, 0, 5, 0 >>

(* ---- C16 ---- *)
ShaderDeleteIdx(id) ==
    { i \in 1..Len(calls) : calls[i].f = "glDeleteShader" /\ calls[i].a = << id >> }
\* get_shader_program has returned a program handle
ShaderProgramReturned ==
    pc \notin { "glfwInit", "createWindow", "makeCurrent", "loadGL", "initViewport",
                "setCallback", "vsCompile", "vsCheck", "fsCompile", "link", "fsCheck",
                "deleteShaders" }
      /\ ~(pc = "exited" /\ exitStatus = << EXIT_FAILURE_CODE >>)

\* C16: each shader object is deleted at most once and only after
\* glLinkProgram; when get_shader_program has returned both are deleted,
\* once each; when the process exits inside get_shader_program no shader
\* object created so far has been deleted.
C16_ShadersDeletedOnce ==
    /\ Cardinality(ShaderDeleteIdx(VS_ID)) <= 1
    /\ Cardinality(ShaderDeleteIdx(FS_ID)) <= 1
    /\ \A i \in CallIdx("glDeleteShader") : \E j \in CallIdx("glLinkProgram") : j < i
    /\ ShaderProgramReturned =>
         /\ Cardinality(ShaderDeleteIdx(VS_ID)) = 1 /\ vsState = "deleted"
         /\ Cardinality(ShaderDeleteIdx(FS_ID)) = 1 /\ fsState = "deleted"
    /\ VertexCompileFailed =>
         ~Called("glDeleteShader") /\ vsState = "created" /\ fsState = "none"
    /\ (FragmentCompileFailed /\ ~VertexCompileFailed) =>
         ~Called("glDeleteShader") /\ vsState = "created" /\ fsState = "created"

C16_Witness ==
    /\ pc = "genObjects"
    /\ vsState = "deleted" /\ fsState = "deleted"
    /\ Cardinality(ShaderDeleteIdx(VS_ID)) = 1
    /\ Cardinality(ShaderDeleteIdx(FS_ID)) = 1

(* ---- C17 ---- *)
\* the statements of an iteration before its event delivery
FramePcs == { "processInput", "clear", "useProgram", "bindVAOdraw", "draw", "swap" }

\* a step that makes a glViewport call
MakesViewportCall ==
    \E i \in (Len(calls) + 1)..Len(calls') : calls'[i].f = "glViewport"

\* C17: the resize callback runs only inside the event delivery that ends an
\* iteration: no step taken between the input check and the present, a
\* resize of the framebuffer by the window system included, changes the
\* viewport or makes a glViewport call, so the viewport is constant from the
\* clear to the present of a frame.
C17_CallbackOnlyInEventDelivery ==
    [][ /\ pc \in FramePcs => (viewport' = viewport /\ ~MakesViewportCall)
        /\ (viewport' # viewport \/ MakesViewportCall) => pc \in { "initViewport", "poll" }
        /\ (fbSize' # fbSize /\ window = "open") =>
             (viewport' = viewport /\ events' # events) ]_vars

C17_Witness ==
    /\ pc = "swap"
    /\ frames >= 1
    /\ HasEvent(events, "resize")
    /\ viewport = InitialViewport
    /\ << viewport[3], viewport[4] >> # fbSize

(* ---- C18 ---- *)
\* presents issued after the input check requested the close
PresentsAfterInputClose ==
    Cardinality({ j \in CallIdx("glfwSwapBuffers") : \E i \in InputCloseIdx : i < j })

\* the latest event delivery; the flag that the window system sets is set by it
LastPollIdx ==
    CHOOSE j \in CallIdx("glfwPollEvents") : \A k \in CallIdx("glfwPollEvents") : k <= j

\* the close flag was set by the window system, during an event delivery
ClosedByWindowSystem == shouldClose /\ InputCloseIdx = { }

\* C18: when the input check set the close flag, the draw and the present
\* of that iteration still follow, one each and no more; when the window
\* system set it during an event delivery, no draw and no present follows
\* that delivery.
C18_AtMostOneFrameAfterClose ==
    /\ InputCloseIdx # { } =>
         /\ DrawsAfterInputClose <= 1 /\ PresentsAfterInputClose <= 1
         /\ pc \notin FramePcs => (DrawsAfterInputClose = 1 /\ PresentsAfterInputClose = 1)
    /\ ClosedByWindowSystem =>
         /\ pc \notin BodyPcs
         /\ Called("glfwPollEvents")
         /\ \A i \in CallIdx("glDrawArrays") \cup CallIdx("glfwSwapBuffers") : i < LastPollIdx

C18_Witness ==
    /\ pc = "deleteVAO"
    /\ ClosedByWindowSystem
    /\ frames >= 2
    /\ CountCalls("glDrawArrays") = frames
    /\ CountCalls("glfwSwapBuffers") = frames

(* ---- C19 ---- *)
\* the OpenGL functions the program calls (through the loaded pointers)
GLFunctions ==
    { "glViewport", "glCreateShader", "glShaderSource", "glCompileShader", "glGetShaderiv",
      "glGetShaderInfoLog", "glCreateProgram", "glAttachShader", "glLinkProgram",
      "glUseProgram", "glDeleteShader", "glGenVertexArrays", "glGenBuffers",
      "glBindVertexArray", "glBindBuffer", "glBufferData", "glVertexAttribPointer",
      "glEnableVertexAttribArray", "glClearColor", "glClear", "glDrawArrays",
      "glDeleteVertexArrays", "glDeleteBuffers", "glDeleteProgram" }
GLCallIdx == { i \in 1..Len(calls) : calls[i].f \in GLFunctions }

\* C19: every OpenGL call comes after glfwCreateWindow returned a window,
\* glfwMakeContextCurrent and a successful gladLoadGLLoader, in that order;
\* an exit on a setup failure has made no OpenGL call.
C19_NoGLBeforeSetup ==
    /\ GLCallIdx # { } =>
         /\ window # "none" /\ loaded
         /\ context \/ window = "destroyed"
    /\ \A i \in GLCallIdx :
         \E w \in CallIdx("glfwCreateWindow") : \E c \in CallIdx("glfwMakeContextCurrent") :
           \E l \in CallIdx("gladLoadGLLoader") : w < c /\ c < l /\ l < i
    /\ (WindowCreationFailed \/ LoaderFailed) => GLCallIdx = { }

C19_Witness ==
    /\ pc = "setCallback"
    /\ GLCallIdx # { }
    /\ loaded /\ context /\ window = "open"

(* ---- C20 ---- *)
\* C20: the result of glfwInit is not checked: after a failed glfwInit the
\* program still sets the hints and calls glfwCreateWindow, which yields no
\* window, and the process exits with status -1 through the
\* window-creation failure branch with that branch's diagnostic, without
\* making a context current, loading OpenGL, building shaders or looping.
C20_InitFailureExitsThroughWindowPath ==
    (Called("glfwInit") /\ ~glfwOk) =>
        /\ pc \in { "createWindow", "exited" }
        /\ pc = "createWindow" =>
             /\ exitStatus = << >> /\ stdout = << >>
             /\ calls[Len(calls)].f = "glfwWindowHint"
        /\ pc = "exited" =>
             /\ exitStatus = << -1 >>
             /\ stdout = << WindowFailedMessage >>
             /\ window = "none"
             /\ CountCalls("glfwCreateWindow") = 1
             /\ calls[Len(calls)].f = "glfwTerminate"
        /\ ~Called("glfwMakeContextCurrent") /\ ~Called("gladLoadGLLoader")
        /\ GLCallIdx = { }
        /\ ~Called("glfwWindowShouldClose") /\ frames = 0

C20_Witness ==
    /\ pc = "exited"
    /\ Called("glfwInit") /\ ~glfwOk
    /\ exitStatus = << -1 >>
    /\ stdout = << WindowFailedMessage >>

====
